---------------------------- MODULE Spec2Model ----------------------------
(***************************************************************************)
(* A model of the quai-manager merge-mining coordinator (manager/main.go). *)
(*                                                                         *)
(* The goroutines of the mining side are modelled as processes that share  *)
(* the Manager's fields: the pending-header subscribers and the one-shot   *)
(* fetches (fetchPendingBlocks), loopGlobalBlock with                      *)
(* updateCombinedHeader, miningLoop with the sealing engine, resultLoop    *)
(* with its two fan-out phases, and the auto-locator (checkBestLocation).  *)
(*                                                                         *)
(* A chain node is the byte pair the code uses in                          *)
(* subscribeMissingExternalBlock: <<0,0>> is PRIME, <<r,0>> is REGION r,   *)
(* <<r,z>> is ZONE (r,z).  A nil pointer is NoBlock / NoJob / NoBundle,    *)
(* a nil *big.Int is the number 0, a nil location is NoLoc.                *)
(***************************************************************************)
EXTENDS Integers, Sequences, FiniteSets, TLC

\* ---------------------------------------------------------------- constants
\* Number of regions and of zones per region (getNodeClients).
R == 3
Z == 3
\* Capacity of the pending-block, updated-header and result channels.
resultQueueSize == 10
exponentialBackoffCeilingSecs == 14400

\* ------------------------------------------------------------------- bounds
\* Pending-header notifications delivered to subscribers in one run.
MaxEvents == 1
\* Solutions the sealing engine posts in one run at a fixed location.
MaxSolutions == 2
\* Solutions the sealing engine posts in one run with the auto-locator on.
MaxSolutionsAuto == 1
\* Relocations the auto-locator starts in one run.
MaxReloc == 1
\* GetPendingBlock calls that fail (nil block or error) in one run.
MaxFails == 1
\* checkConnection / SyncProgress failures in one spawn round.
MaxConnFail == 0
\* New-head and missing-external-block events handled in one run.
MaxRelays == 2
MaxBurst == 11
MaxHeight == 2
MaxDifficulty == 2
MaxAttempts == 66
\* Iterations of main's startup loop.
MaxBootRounds == 3

\* -------------------------------------------------------------------- nodes
Tiers == 0..2
PRIME == <<0, 0>>
REGION(r) == <<r, 0>>
ZONE(r, z) == <<r, z>>
Regions == {REGION(r) : r \in 1..R}
Zones == {ZONE(r, z) : r \in 1..R, z \in 1..Z}
Nodes == {PRIME} \cup Regions \cup Zones
Locations == Zones
NoLoc == <<0, 0>>
NoNode == <<-1, -1>>
NoBlock == [src |-> NoNode, num |-> 0, time |-> 0]
NoJob == [none |-> TRUE]
NoBundle == [none |-> TRUE]
NoUpd == [none |-> TRUE]

\* The tier a node belongs to.
TierOf(n) == IF n = PRIME THEN 0 ELSE IF n[2] = 0 THEN 1 ELSE 2

\* The node of tier i in the mining slice of location loc: primeClient,
\* regionClients[loc[0]-1], zoneClients[loc[0]-1][loc[1]-1].
MiningNode(i, loc) ==
    IF i = 0 THEN PRIME ELSE IF i = 1 THEN REGION(loc[1]) ELSE ZONE(loc[1], loc[2])

VARIABLES
    chainNum,       \* environment: the number of each node's current pending block
    available,      \* orderedBlockClients.*Available, by node
    location,       \* m.location
    lock,           \* m.lock: "free" or the holder
    combinedHeader, \* m.combinedHeader
    pendingBlocks,  \* m.pendingBlocks
    pendingCh,      \* pendingPrimeBlockCh, pendingRegionBlockCh, pendingZoneBlockCh
    updatedCh,      \* m.updatedCh: every element is the pointer m.combinedHeader
    resultCh,       \* m.resultCh
    tasks,          \* subscribePendingHeader and one-shot fetchPendingBlocks goroutines
    budget,         \* environment: the events, failures and solutions still to come
    gpc, upd,       \* loopGlobalBlock: position, block in hand
    mpc, job,       \* miningLoop: position; the engine's in-flight sealing job
    stopCh, stops,  \* miningLoop: its stopCh variable; every stop channel made so far
    rpc, bundle,    \* resultLoop: position, bundle in hand
    offline,        \* the node whose probe failed in this dispatch's allChainsOnline
    extTask,        \* SendClientsMinedExtBlock goroutines of this dispatch, by mined tier
    minedTask,      \* SendMinedBlock goroutines of this dispatch, by mined tier
    extSent,        \* SendExternalBlock calls of this dispatch: <<mined, node>> -> count
    minedSent,      \* SendMinedBlock calls of this dispatch: <<mined, node>> -> count
    lpc,            \* main / checkBestLocation: position
    newLocation,    \* checkBestLocation: newLocation
    relocs,         \* relocations started so far
    crashed,        \* a goroutine panicked: the process is gone
    calc,           \* one run of fetchPendingBlocks' first round, of the delay formula or
                    \* of findBestLocation; the locals of main's startup loop
    relayLog        \* subscribeNewHeadClient / subscribeMissingExternalBlockClient:
                    \* the events handled so far, each with the calls it made

vars == <<chainNum, available, location, lock, combinedHeader, pendingBlocks, pendingCh,
          updatedCh, resultCh, tasks, budget, gpc, upd, mpc, job, stopCh, stops,
          rpc, bundle, offline, extTask, minedTask, extSent, minedSent,
          lpc, newLocation, relocs, crashed, relayLog, calc>>

fetchVars == <<tasks, budget>>
loopVars == <<gpc, upd>>
minerVars == <<mpc, job, stopCh, stops>>
resultVars == <<rpc, bundle, offline, extTask, minedTask, extSent, minedSent>>
locatorVars == <<lpc, newLocation, relocs>>
sharedVars == <<combinedHeader, pendingBlocks, pendingCh, updatedCh, resultCh>>

\* What GetPendingBlock of node n returns when it returns a block: the node's
\* current pending block.  Pending block k of a chain carries header time k.
PendingBlockOf(n) == [src |-> n, num |-> chainNum[n], time |-> chainNum[n]]

\* The answers of one GetPendingBlock call: the block, or nil / an error.
GetPendingBlock(n) == {PendingBlockOf(n)} \cup IF budget.fails > 0 THEN {NoBlock} ELSE {}

\* The budget after a GetPendingBlock call answered r.
Spend(r) == IF r = NoBlock THEN [budget EXCEPT !.fails = @ - 1] ELSE budget

\* A stop channel: how often it was closed and how often it was handed to
\* SealHeader.  NilCh is the nil channel; the others are named by their
\* position in stops.
NilCh == 0
NewCh == [closed |-> 0, seals |-> 0]
Closed(ch) == [ch EXCEPT !.closed = @ + 1]
Sealing(ch) == [ch EXCEPT !.seals = @ + 1]

\* No run of a function is under way.
NoCalc == [kind |-> "none"]

\* The locations the manager is started at (config.Location).
StartLocations == {<<1, 1>>}

NoSends == [k \in Tiers \X Nodes |-> 0]
NoTasks == [i \in Tiers |-> "none"]

\* main: the header literal, make([]*types.ReceiptBlock, 3), the channels.
\* A manager that runs has dialled every client: subscribeNewHead and
\* subscribeMissingExternalBlock dereference each of them.
ManagerFields ==
    /\ chainNum = [n \in Nodes |-> 1]
    /\ location \in StartLocations
    /\ lock = "free"
    /\ combinedHeader = [number |-> [i \in Tiers |-> 0],
                         origin |-> [i \in Tiers |-> NoNode],
                         time |-> 0,
                         location |-> NoLoc]
    /\ pendingBlocks = [i \in Tiers |-> NoBlock]
    /\ pendingCh = [i \in Tiers |-> <<>>]
    /\ updatedCh = 0
    /\ resultCh = <<>>
    /\ tasks = <<>>
    /\ budget = [events |-> MaxEvents, fails |-> MaxFails, solutions |-> MaxSolutions]
    /\ gpc = "select" /\ upd = NoUpd
    /\ mpc = "select" /\ job = NoJob
    /\ stopCh = NilCh /\ stops = <<>>
    /\ rpc = "select" /\ bundle = NoBundle
    /\ offline = NoNode
    /\ extTask = NoTasks /\ minedTask = NoTasks
    /\ extSent = NoSends /\ minedSent = NoSends
    /\ newLocation = NoLoc
    /\ relocs = 0
    /\ crashed = FALSE
    /\ relayLog = <<>>

\* The manager built by main on a registry with every client connected.
Constructed ==
    /\ ManagerFields
    /\ available = [n \in Nodes |-> TRUE]
    /\ lpc = "boot"

\* The state after NewManager and before any goroutine has run.
Init == Constructed /\ calc = NoCalc

\* ------------------------------------------------- spawning the C2 goroutines
\* One goroutine record.  kind "sub" is subscribePendingHeader, "once" is a
\* bare fetchPendingBlocks started by fetchAllPendingBlocks.
Task(kind, i, loc, gen) ==
    [kind |-> kind, tier |-> i, node |-> MiningNode(i, loc), gen |-> gen,
     pc |-> IF kind = "sub" THEN "select" ELSE "want",
     attempts |-> 0]

TasksFor(kind, ok, loc, gen) ==
    LET one(i) == IF i \in ok THEN <<Task(kind, i, loc, gen)>> ELSE <<>>
    IN  one(0) \o one(1) \o one(2)

\* subscribeAllPendingBlocks then fetchAllPendingBlocks at location loc.
\* subsOk: the tiers whose client is available, passes checkConnection and
\* reports sync without error, so that the goroutine reaches its select;
\* fetchOk: the tiers whose client is available and passes checkConnection.
SpawnAll(subsOk, fetchOk, loc, gen) ==
    tasks \o TasksFor("sub", subsOk, loc, gen) \o TasksFor("once", fetchOk, loc, gen)

SpawnInputs ==
    {p \in (SUBSET Tiers) \X (SUBSET Tiers) :
        Cardinality(Tiers \ p[1]) + Cardinality(Tiers \ p[2]) <= MaxConnFail}

\* main, config.Mine: subscribeAllPendingBlocks, the go statements,
\* fetchAllPendingBlocks.
StartMining ==
    /\ ~crashed
    /\ lpc = "boot"
    /\ \E p \in SpawnInputs :
          tasks' = SpawnAll({i \in p[1] : available[MiningNode(i, location)]},
                            {i \in p[2] : available[MiningNode(i, location)]},
                            location, 0)
    /\ lpc' = "tick"
    /\ UNCHANGED <<chainNum, available, location, lock, sharedVars, budget, loopVars,
                   minerVars, resultVars, newLocation, relocs, crashed, relayLog, calc>>

\* -------------------------------------------------- fetchPendingBlocks (C2)
SetTask(t, r) == [tasks EXCEPT ![t] = r]

\* subscribePendingHeader, case <-header: the node announces a pending block
\* (a new one when adv = 1, the current one again when adv = 0) and the
\* subscriber starts a fetch.
PendingHeaderEvent(t, adv) ==
    /\ ~crashed
    /\ t \in DOMAIN tasks
    /\ tasks[t].kind = "sub" /\ tasks[t].pc = "select"
    /\ budget.events > 0
    /\ budget' = [budget EXCEPT !.events = @ - 1]
    /\ chainNum' = [chainNum EXCEPT ![tasks[t].node] = @ + adv]
    /\ tasks' = SetTask(t, [tasks[t] EXCEPT !.pc = "want"])
    /\ UNCHANGED <<available, location, lock, sharedVars, loopVars, minerVars,
                   resultVars, locatorVars, crashed, relayLog, calc>>

\* The stale test compares two *big.Int pointers: the number of a block that
\* was just decoded and the number stored in the combined header.  Two
\* pointers are equal only when both are nil.
IsStale(b, i) == b # NoBlock /\ b.num = 0 /\ combinedHeader.number[i] = 0

\* fetchPendingBlocks when the first answer settles it: Lock, the first
\* GetPendingBlock, the refetch of a stale block, Unlock and the send on the
\* tier's pending-block channel (which blocks while the channel is full).  The
\* subscriber goes back to its select, the one-shot fetch returns.
\* Otherwise the goroutine enters the retry loop with the mutex held.
Deliver(t, b) ==
    /\ Len(pendingCh[tasks[t].tier]) < resultQueueSize
    /\ pendingCh' = [pendingCh EXCEPT ![tasks[t].tier] = Append(@, b)]
    /\ tasks' = SetTask(t, [tasks[t] EXCEPT
                               !.pc = IF tasks[t].kind = "sub" THEN "select" ELSE "exit",
                               !.attempts = 0])

FetchFirst(t) ==
    /\ ~crashed
    /\ t \in DOMAIN tasks
    /\ tasks[t].pc = "want"
    /\ lock = "free"
    /\ \E r1 \in GetPendingBlock(tasks[t].node) :
        \E r2 \in IF IsStale(r1, tasks[t].tier)
                  THEN GetPendingBlock(tasks[t].node) ELSE {r1} :
            /\ budget' = Spend(r2)
            /\ IF r2 # NoBlock
               THEN /\ Deliver(t, r2)
                    /\ lock' = lock
               ELSE /\ tasks' = SetTask(t, [tasks[t] EXCEPT !.pc = "backoff",
                                                            !.attempts = 0])
                    /\ lock' = "fetch"
                    /\ pendingCh' = pendingCh
    /\ UNCHANGED <<chainNum, available, location, combinedHeader, pendingBlocks, updatedCh,
                   resultCh, loopVars, minerVars, resultVars, locatorVars,
                   crashed, relayLog, calc>>

\* One round of the retry loop: GetPendingBlock again; a block ends the loop,
\* releases the mutex and is sent on the channel; a failure counts an attempt
\* and sleeps with the mutex still held.
FetchRetry(t) ==
    /\ ~crashed
    /\ t \in DOMAIN tasks
    /\ tasks[t].pc = "backoff"
    /\ \E r \in GetPendingBlock(tasks[t].node) :
          IF r # NoBlock
          THEN /\ Deliver(t, r)
               /\ lock' = "free"
               /\ budget' = budget
          ELSE /\ tasks' = SetTask(t, [tasks[t] EXCEPT !.attempts = @ + 1])
               /\ lock' = lock
               /\ pendingCh' = pendingCh
               /\ budget' = Spend(r)
    /\ UNCHANGED <<chainNum, available, location, combinedHeader, pendingBlocks, updatedCh,
                   resultCh, loopVars, minerVars, resultVars, locatorVars,
                   crashed, relayLog, calc>>

\* ------------------------------------- loopGlobalBlock, updateCombinedHeader
\* A Lock() that returns at once, whoever holds the mutex.
AcquireNoWait(holder) == lock' = holder

\* m.lock.Lock() by holder: returns once the mutex is free.
Acquire(holder) == lock = "free" /\ lock' = holder

\* An update that copies the block's fields into every slot.
updateAllSlots(h, b, i, loc) ==
    [number |-> [j \in Tiers |-> b.num],
     origin |-> [j \in Tiers |-> b.src],
     time |-> IF b.time <= h.time THEN h.time ELSE b.time,
     location |-> loc]

\* The combined header after updateCombinedHeader(header, i) at location loc.
\* The slot's origin stands for the per-tier fields copied with the number
\* (ParentHash, Root, TxHash, ...): they identify the chain they came from.
updateCombinedHeader(h, b, i, loc) ==
    [number |-> [h.number EXCEPT ![i] = b.num],
     origin |-> [h.origin EXCEPT ![i] = b.src],
     time |-> IF b.time <= h.time THEN h.time ELSE b.time,
     location |-> loc]

\* loopGlobalBlock: a receive from one of the three pending-block channels and,
\* in updateCombinedHeader, m.lock.Lock().
LoopRecv(i) ==
    /\ ~crashed
    /\ gpc = "select"
    /\ pendingCh[i] # <<>>
    /\ Acquire("update")
    /\ upd' = [tier |-> i, blk |-> Head(pendingCh[i])]
    /\ pendingCh' = [pendingCh EXCEPT ![i] = Tail(@)]
    /\ gpc' = "writing"
    /\ UNCHANGED <<chainNum, available, location, combinedHeader, pendingBlocks,
                   updatedCh, resultCh, fetchVars, minerVars, resultVars,
                   locatorVars, crashed, relayLog, calc>>

\* updateCombinedHeader: the writes and m.lock.Unlock().
UpdateWrite ==
    /\ ~crashed
    /\ gpc = "writing"
    /\ combinedHeader' = updateCombinedHeader(combinedHeader, upd.blk, upd.tier, location)
    /\ lock' = "free"
    /\ gpc' = "store"
    /\ UNCHANGED <<chainNum, available, location, pendingBlocks, pendingCh, updatedCh,
                   resultCh, fetchVars, upd, minerVars, resultVars, locatorVars,
                   crashed, relayLog, calc>>

\* A store whose send on updatedCh waits for room.
LoopStoreBlocking ==
    /\ ~crashed
    /\ gpc = "store"
    /\ updatedCh < resultQueueSize
    /\ pendingBlocks' = [pendingBlocks EXCEPT ![upd.tier] = upd.blk]
    /\ updatedCh' = updatedCh + 1
    /\ gpc' = "select"
    /\ upd' = NoUpd
    /\ UNCHANGED <<chainNum, available, location, lock, combinedHeader, pendingCh, resultCh,
                   fetchVars, minerVars, resultVars, locatorVars, crashed, relayLog, calc>>

\* loopGlobalBlock after the update: m.pendingBlocks[i] = block and the
\* non-blocking send of m.combinedHeader on updatedCh.
LoopStore ==
    /\ ~crashed
    /\ gpc = "store"
    /\ pendingBlocks' = [pendingBlocks EXCEPT ![upd.tier] = upd.blk]
    /\ updatedCh' = IF updatedCh < resultQueueSize THEN updatedCh + 1 ELSE updatedCh
    /\ gpc' = "select"
    /\ upd' = NoUpd
    /\ UNCHANGED <<chainNum, available, location, lock, combinedHeader, pendingCh, resultCh,
                   fetchVars, minerVars, resultVars, locatorVars, crashed, relayLog, calc>>

\* ------------------------------------------------------ miningLoop, engine
\* A check that lets every header pass.
headerNeverNull(h) == TRUE

\* headerNullCheck returns nil.
headerNullCheck(h) == \A i \in Tiers : h.number[i] # 0

\* An interrupt that forgets the channel without closing it.
interruptNoClose(chs, c) == chs

\* interrupt(): a stopCh that is not nil is closed; the variable is then nil.
interrupt(chs, c) == IF c # NilCh THEN [chs EXCEPT ![c] = Closed(@)] ELSE chs

\* miningLoop: the receive from updatedCh, interrupt() and the new stopCh.
\* Closing the channel ends the sealing job that was started with it.
MinerRecv ==
    /\ ~crashed
    /\ mpc = "select"
    /\ updatedCh > 0
    /\ updatedCh' = updatedCh - 1
    /\ job' = NoJob
    /\ stops' = Append(interrupt(stops, stopCh), NewCh)
    /\ stopCh' = Len(stops) + 1
    /\ mpc' = "lock"
    /\ UNCHANGED <<chainNum, available, location, lock, combinedHeader, pendingBlocks,
                   pendingCh, resultCh, fetchVars, loopVars,
                   resultVars, locatorVars, crashed, relayLog, calc>>

\* miningLoop: Lock, Unlock, headerNullCheck and SealHeader of the header
\* received, which is the pointer m.combinedHeader.
MinerSeal ==
    /\ ~crashed
    /\ mpc = "lock"
    /\ lock = "free"
    /\ job' = IF headerNullCheck(combinedHeader) THEN combinedHeader ELSE NoJob
    /\ stops' = IF headerNullCheck(combinedHeader)
                THEN [stops EXCEPT ![stopCh] = Sealing(@)] ELSE stops
    /\ stopCh' = stopCh
    /\ mpc' = "select"
    /\ UNCHANGED <<chainNum, available, location, lock, sharedVars, fetchVars, loopVars,
                   resultVars, locatorVars, crashed, relayLog, calc>>

\* The engine finds a nonce for the job in flight and posts the bundle with
\* the highest context c the solution satisfies.
Solve(c) ==
    /\ ~crashed
    /\ job # NoJob
    /\ budget.solutions > 0
    /\ Len(resultCh) < resultQueueSize
    /\ resultCh' = Append(resultCh, [Context |-> c, Header |-> job])
    /\ job' = NoJob
    /\ budget' = [budget EXCEPT !.solutions = @ - 1]
    /\ UNCHANGED <<chainNum, available, location, lock, combinedHeader, pendingBlocks,
                   pendingCh, updatedCh, tasks, loopVars, mpc, stopCh, stops, resultVars,
                   locatorVars, crashed, relayLog, calc>>

\* ------------------------------------------------------------- resultLoop
\* The chains allChainsOnline is probed with in this model: no failure, or the
\* first failing checkConnection at PRIME, at a REGION or at a ZONE.
OnlineInputs == {NoNode, PRIME, REGION(2), ZONE(1, 2)}

\* An online check that never reports a failure.
AlwaysOnline(failing) == TRUE

\* allChainsOnline, given the node whose checkConnection fails first.
allChainsOnline(failing) == failing \notin Nodes

\* The tiers a bundle of context c is fanned out for: the SendClientsMinedExtBlock
\* and SendMinedBlock calls under "bundle.Context == c".
FanOut(c) == {i \in Tiers : i >= c}

\* The externalContexts argument of SendClientsMinedExtBlock(mined, ...).
ExternalContexts(mined) == Tiers \ {mined}

\* A fan-out without the first loop.
NoMiningTargets(mined, loc) == {}

\* SendClientsExtBlock, first loop: the mining-slice nodes of the block's location.
ExtMiningTargets(mined, loc) ==
    {MiningNode(x, loc) : x \in {y \in ExternalContexts(mined) : available[MiningNode(y, loc)]}}

\* A fan-out without the second and third loop.
NoOtherTargets(loc) == {}

\* SendClientsExtBlock, second and third loop: every region and every zone
\* that is not the block's.
ExtOtherTargets(loc) ==
    {n \in Regions : n[1] # loc[1]} \cup {n \in Zones : ~(n[1] = loc[1] /\ n[2] = loc[2])}

AddSends(sent, mined, targets) ==
    [k \in DOMAIN sent |-> IF k[1] = mined /\ k[2] \in targets THEN sent[k] + 1 ELSE sent[k]]

\* A wg.Wait() that returns at once.
NoWait(ts) == TRUE

\* wg.Wait(): every goroutine added to the group has called Done.
AllFinished(ts) == \A i \in Tiers : ts[i] \in {"none", "done"}

\* resultLoop: the receive from resultCh and m.lock.Lock().
ResultRecv ==
    /\ ~crashed
    /\ rpc = "select"
    /\ resultCh # <<>>
    /\ Acquire("result")
    /\ bundle' = Head(resultCh)
    /\ resultCh' = Tail(resultCh)
    /\ offline' = NoNode
    /\ rpc' = "check"
    /\ UNCHANGED <<chainNum, available, location, combinedHeader, pendingBlocks,
                   pendingCh, updatedCh, fetchVars, loopVars, minerVars,
                   extTask, minedTask, extSent, minedSent, locatorVars, crashed, relayLog, calc>>

\* resultLoop from allChainsOnline to the first wg.Wait: "continue" when a chain
\* is offline (the mutex stays locked), else the Phase-A goroutines of the
\* bundle's context; a nil header.Number[context] goes straight to Unlock.
ResultCheck ==
    /\ ~crashed
    /\ rpc = "check"
    /\ \E failing \in OnlineInputs :
          /\ offline' = failing
          /\ IF ~allChainsOnline(failing)
             THEN /\ rpc' = "select"
                  /\ bundle' = NoBundle
                  /\ UNCHANGED <<lock, extTask>>
             ELSE IF bundle.Header.number[bundle.Context] # 0
             THEN /\ extTask' = [i \in Tiers |->
                                   IF i \in FanOut(bundle.Context) THEN "spawned" ELSE "none"]
                  /\ rpc' = "phaseA"
                  /\ UNCHANGED <<lock, bundle>>
             ELSE /\ lock' = "free"
                  /\ rpc' = "select"
                  /\ bundle' = NoBundle
                  /\ UNCHANGED extTask
    /\ UNCHANGED <<chainNum, available, location, sharedVars, fetchVars, loopVars, minerVars,
                   minedTask, extSent, minedSent, locatorVars, crashed, relayLog, calc>>

\* SendClientsExtBlock(mined, externalContexts, block, ...): the nodes that get
\* one SendExternalBlock each.  A block without location gets none.
SendClientsExtBlock(mined, loc) ==
    IF loc = NoLoc THEN {}
    ELSE ExtMiningTargets(mined, loc) \cup ExtOtherTargets(loc)

\* SendClientsMinedExtBlock(mined, ...): the read of pendingBlocks[mined],
\* SendClientsExtBlock of the header with that body, wg.Done.  Without a
\* pending block nothing is sent.
SendClientsMinedExtBlock(mined) ==
    /\ ~crashed
    /\ extTask[mined] = "spawned"
    /\ extTask' = [extTask EXCEPT ![mined] = "done"]
    /\ extSent' = IF pendingBlocks[mined] = NoBlock THEN extSent
                  ELSE AddSends(extSent, mined,
                                SendClientsExtBlock(mined, bundle.Header.location))
    /\ UNCHANGED <<chainNum, available, location, lock, sharedVars, fetchVars, loopVars,
                   minerVars, rpc, bundle, offline, minedTask, minedSent,
                   locatorVars, crashed, relayLog, calc>>

\* resultLoop: the first wg.Wait returns; the SendMinedBlock goroutines start.
ResultBarrier ==
    /\ ~crashed
    /\ rpc = "phaseA"
    /\ AllFinished(extTask)
    /\ minedTask' = [i \in Tiers |->
                        IF i \in FanOut(bundle.Context) THEN "spawned" ELSE "none"]
    /\ rpc' = "phaseB"
    /\ UNCHANGED <<chainNum, available, location, lock, sharedVars, fetchVars, loopVars,
                   minerVars, bundle, offline, extTask, extSent, minedSent,
                   locatorVars, crashed, relayLog, calc>>

\* SendMinedBlock(mined, header): the body of pendingBlocks[mined], sealed with
\* the header, goes to the tier's node at m.location.  receiptBlock.Header() of
\* a nil pending block panics.
SendMinedBlock(mined) ==
    /\ ~crashed
    /\ minedTask[mined] = "spawned"
    /\ IF pendingBlocks[mined] = NoBlock
       THEN /\ crashed' = TRUE
            /\ UNCHANGED <<minedTask, minedSent>>
       ELSE /\ minedTask' = [minedTask EXCEPT ![mined] = "done"]
            /\ minedSent' = AddSends(minedSent, mined, {MiningNode(mined, location)})
            /\ crashed' = crashed
    /\ UNCHANGED <<chainNum, available, location, lock, sharedVars, fetchVars, loopVars,
                   minerVars, rpc, bundle, offline, extTask, extSent, locatorVars, relayLog, calc>>

\* resultLoop: the second wg.Wait returns; m.lock.Unlock().
ResultUnlock ==
    /\ ~crashed
    /\ rpc = "phaseB"
    /\ AllFinished(minedTask)
    /\ lock' = "free"
    /\ rpc' = "select"
    /\ bundle' = NoBundle
    /\ extTask' = NoTasks /\ minedTask' = NoTasks
    /\ extSent' = NoSends /\ minedSent' = NoSends
    /\ UNCHANGED <<chainNum, available, location, sharedVars, fetchVars, loopVars, minerVars,
                   offline, locatorVars, crashed, relayLog, calc>>

\* ------------------------------------- findBestLocation, checkBestLocation
\* A head query that failed.
Err == 0
\* math.MaxInt, the start value of lowestRegion and lowestZone.
MathMaxInt == 2147483647

\* A loop in which a later head of equal difficulty replaces the earlier one.
RECURSIVE LowestOrLast(_, _, _, _)
LowestOrLast(heads, i, lowest, loc) ==
    IF i > Len(heads) THEN loc
    ELSE IF heads[i] # Err /\ heads[i] <= lowest
         THEN LowestOrLast(heads, i + 1, heads[i], i)
         ELSE LowestOrLast(heads, i + 1, lowest, loc)

\* One loop of findBestLocation over heads[i..]: the index (from 1) of the
\* first strictly lowest difficulty among the queries that succeeded, 0 if
\* none did.
RECURSIVE Lowest(_, _, _, _)
Lowest(heads, i, lowest, loc) ==
    IF i > Len(heads) THEN loc
    ELSE IF heads[i] # Err /\ heads[i] < lowest
         THEN Lowest(heads, i + 1, heads[i], i)
         ELSE Lowest(heads, i + 1, lowest, loc)

\* findBestLocation: regionHeads[r] is difficulty[1] of REGION r's head,
\* zoneHeads[r][z] is difficulty[2] of ZONE (r,z)'s head.  With no region
\* selected, zoneClients[regionLocation-1] is out of range.
findBestLocation(regionHeads, zoneHeads) ==
    LET regionLocation == Lowest(regionHeads, 1, MathMaxInt, 0)
    IN  IF regionLocation = 0 THEN <<0, 0>>
        ELSE <<regionLocation, Lowest(zoneHeads[regionLocation], 1, MathMaxInt, 0)>>

\* The head difficulties findBestLocation is run with as a function: every
\* region head fails or has difficulty 1 or 2; the zones of a region answer
\* with one of the rows.
Difficulties == 1..MaxDifficulty
RegionHeadInputs == [1..R -> {Err} \cup Difficulties]
ZoneRows == {<<2, 1, 1>>, <<Err, 2, 1>>, <<1, Err, 2>>, <<Err, Err, Err>>}
ZoneHeadInputs == [1..R -> ZoneRows]

\* The head difficulties the auto-locator's tick is run with.
RegionHeadSamples == {<<2, 1, 2>>}
ZoneHeadSamples == {<<2, 2, 1>>}

\* checkBestLocation, case <-ticker.C, with the heads rh and zhs:
\* findBestLocation and the comparison with m.location.
LocatorRound(rh, zhs) ==
    /\ ~crashed
    /\ lpc = "tick"
    /\ relocs < MaxReloc
    /\ LET found == findBestLocation(rh, zhs)
       IN  IF found[1] = 0
           THEN /\ crashed' = TRUE
                /\ UNCHANGED locatorVars
           ELSE /\ found # location
                /\ newLocation' = found
                /\ lpc' = "stop"
                /\ relocs' = relocs + 1
                /\ crashed' = crashed
    /\ UNCHANGED <<chainNum, available, location, lock, sharedVars, fetchVars, loopVars,
                   minerVars, resultVars, relayLog, calc>>

\* A tick with the sample heads.
LocatorTick ==
    \E rh \in RegionHeadSamples, zh \in ZoneHeadSamples :
        LocatorRound(rh, [r \in 1..R |-> zh])

\* A tick with any heads, failed queries included.
LocatorTickAny ==
    \E rh \in RegionHeadInputs, zhs \in ZoneHeadInputs : LocatorRound(rh, zhs)

\* A subscriber that is waiting in its select.
InSelect(t) == t \in DOMAIN tasks /\ tasks[t].kind = "sub" /\ tasks[t].pc = "select"

\* checkBestLocation: m.doneCh <- true is received by subscriber t, whose
\* "break" leaves only the select; then m.location = newLocation.
LocatorStop(t) ==
    /\ ~crashed
    /\ lpc = "stop"
    /\ InSelect(t)
    /\ location' = newLocation
    /\ lpc' = "resume"
    /\ UNCHANGED <<chainNum, available, lock, sharedVars, fetchVars, loopVars, minerVars,
                   resultVars, newLocation, relocs, crashed, relayLog, calc>>

\* checkBestLocation: m.doneCh <- false is received by subscriber t; then
\* subscribeAllPendingBlocks and fetchAllPendingBlocks at the new location.
\* With a location outside the tables, zonesAvailable[m.location[0]-1]
\* [m.location[1]-1] is out of range and the program panics.
LocatorResume(t) ==
    /\ ~crashed
    /\ lpc = "resume"
    /\ InSelect(t)
    /\ IF location \in Locations
       THEN /\ \E p \in SpawnInputs :
                  tasks' = SpawnAll({i \in p[1] : available[MiningNode(i, location)]},
                                    {i \in p[2] : available[MiningNode(i, location)]},
                                    location, relocs)
            /\ lpc' = "tick"
            /\ crashed' = crashed
       ELSE /\ crashed' = TRUE
            /\ UNCHANGED <<tasks, lpc>>
    /\ UNCHANGED <<chainNum, available, location, lock, sharedVars, budget, loopVars,
                   minerVars, resultVars, newLocation, relocs, relayLog, calc>>

\* ------------------------ subscribeNewHeadClient (the head propagator)
\* One RPC round: op called on each node of the set to, with context
\* annotation c (-1 where the call has none).
Call(op, to, c) == [op |-> op, to |-> to, ctx |-> c]

\* The locations the header of a new head of node n can carry: none, or the
\* location it was mined at, which lies in n's own region / is n's own zone.
HeadLocations(n) ==
    {NoLoc} \cup {l \in Locations : \/ n = PRIME
                                     \/ (TierOf(n) = 1 /\ l[1] = n[1])
                                     \/ l = n}

\* The new-head events of node n.  blockOk, receiptsOk: BlockByHash and
\* GetBlockReceipts succeed; regionExt, zoneExt: GetExternalBlockByHashAndContext
\* returns the external block of context 1 / 2, whose header is the head's.
HeadInputs(n) ==
    [src : {n}, blockOk : BOOLEAN, receiptsOk : BOOLEAN, loc : HeadLocations(n),
     regionExt : BOOLEAN, zoneExt : BOOLEAN]

\* SendClientsExtBlock as called by the propagator: the first loop, then the
\* second and third.
ExtBroadcast(c, loc) ==
    <<Call("SendExternalBlock", ExtMiningTargets(c, loc), c),
      Call("SendExternalBlock", ExtOtherTargets(loc), c)>>

\* A propagator that broadcasts the head without sealing the zone block.
SkipSealZone(from, h) == ExtBroadcast(TierOf(h.src), h.loc)

\* The zone external block is sealed and sent to the zone its header names.
SealZone(from, h) ==
    <<Call("GetExternalBlockByHashAndContext", {from}, 2)>>
    \o (IF ~h.zoneExt THEN <<>>
        ELSE <<Call("SendMinedBlock", {ZONE(h.loc[1], h.loc[2])}, -1)>>
             \o ExtBroadcast(TierOf(h.src), h.loc))

\* The calls subscribeNewHeadClient makes for one new head h, in order.
subscribeNewHeadClient(h) ==
    LET c == TierOf(h.src)
        block == <<Call("BlockByHash", {h.src}, -1)>>
        receipts == <<Call("GetBlockReceipts", {h.src}, -1)>>
    IN  IF ~h.blockOk THEN block
        ELSE IF ~h.receiptsOk \/ h.loc = NoLoc THEN block \o receipts
        ELSE IF c = 0
        THEN block \o receipts
             \o <<Call("GetExternalBlockByHashAndContext", {PRIME}, 1)>>
             \o (IF ~h.regionExt THEN <<>>
                 ELSE <<Call("SendMinedBlock", {REGION(h.loc[1])}, -1)>>
                      \o SealZone(PRIME, h))
        ELSE IF c = 1
        THEN block \o receipts \o SealZone(REGION(h.loc[1]), h)
        ELSE block \o receipts \o ExtBroadcast(c, h.loc)

\* A propagator that keeps the head's block as the pending block of its tier.
NewHeadStored(n) ==
    /\ ~crashed
    /\ Len(relayLog) < MaxRelays
    /\ \E h \in HeadInputs(n) :
          relayLog' = Append(relayLog, [kind |-> "head", req |-> h,
                                        calls |-> subscribeNewHeadClient(h)])
    /\ pendingBlocks' = [pendingBlocks EXCEPT ![TierOf(n)] = PendingBlockOf(n)]
    /\ UNCHANGED <<chainNum, available, location, lock, combinedHeader, pendingCh, updatedCh,
                   resultCh, fetchVars, loopVars, minerVars, resultVars, locatorVars,
                   crashed, calc>>

\* case newHead := <-newHeadChannel of node n's propagator goroutine.
NewHeadEvent(n) ==
    /\ ~crashed
    /\ Len(relayLog) < MaxRelays
    /\ \E h \in HeadInputs(n) :
          relayLog' = Append(relayLog, [kind |-> "head", req |-> h,
                                        calls |-> subscribeNewHeadClient(h)])
    /\ UNCHANGED <<chainNum, available, location, lock, sharedVars, fetchVars, loopVars,
                   minerVars, resultVars, locatorVars, crashed, calc>>

\* --------- subscribeMissingExternalBlockClient (the missing-block responder)
\* The node that owns (context, location).
Owner(c, loc) == MiningNode(c, loc)

\* The subscribed nodes and the requests the responder is run with.  local:
\* BlockByHash on the owner finds the block; receiptsOk: GetBlockReceipts on
\* the owner succeeds; inPrime, inRegion: the external block is found there.
MissingSources == {PRIME, REGION(2), ZONE(1, 2)}
MissingLocations == {<<1, 1>>, <<2, 3>>}
MissingInputs(n) ==
    [src : {n}, ctx : Tiers, loc : MissingLocations, local : BOOLEAN,
     receiptsOk : BOOLEAN, inPrime : BOOLEAN, inRegion : BOOLEAN]

\* A responder that asks the region before PRIME.
RegionBeforePrime(q) ==
    LET owner == Owner(q.ctx, q.loc)
        reply == <<Call("SendExternalBlock", {q.src}, q.ctx)>>
        probe == <<Call("BlockByHash", {owner}, -1)>>
        prime == <<Call("GetExternalBlockByHashAndContext", {PRIME}, q.ctx)>>
        region == <<Call("GetExternalBlockByHashAndContext", {REGION(q.loc[1])}, q.ctx)>>
    IN  IF q.local
        THEN probe \o <<Call("GetBlockReceipts", {owner}, -1)>>
             \o (IF q.receiptsOk THEN reply ELSE <<>>)
        ELSE IF q.inRegion THEN probe \o region \o reply
        ELSE IF q.inPrime THEN probe \o region \o prime \o reply
        ELSE probe \o region \o prime

\* A responder that sends its reply to the owner of the block.
ReplyToOwner(q) ==
    LET owner == Owner(q.ctx, q.loc)
        reply == <<Call("SendExternalBlock", {owner}, q.ctx)>>
        probe == <<Call("BlockByHash", {owner}, -1)>>
        prime == <<Call("GetExternalBlockByHashAndContext", {PRIME}, q.ctx)>>
        region == <<Call("GetExternalBlockByHashAndContext", {REGION(q.loc[1])}, q.ctx)>>
    IN  IF q.local
        THEN probe \o <<Call("GetBlockReceipts", {owner}, -1)>>
             \o (IF q.receiptsOk THEN reply ELSE <<>>)
        ELSE IF q.inPrime THEN probe \o prime \o reply
        ELSE IF q.inRegion THEN probe \o prime \o region \o reply
        ELSE probe \o prime \o region

\* The calls subscribeMissingExternalBlockClient makes for one request q of
\* node q.src, in order.
subscribeMissingExternalBlockClient(q) ==
    LET owner == Owner(q.ctx, q.loc)
        reply == <<Call("SendExternalBlock", {q.src}, q.ctx)>>
        probe == <<Call("BlockByHash", {owner}, -1)>>
        prime == <<Call("GetExternalBlockByHashAndContext", {PRIME}, q.ctx)>>
        region == <<Call("GetExternalBlockByHashAndContext", {REGION(q.loc[1])}, q.ctx)>>
    IN  IF q.local
        THEN probe \o <<Call("GetBlockReceipts", {owner}, -1)>>
             \o (IF q.receiptsOk THEN reply ELSE <<>>)
        ELSE IF q.inPrime THEN probe \o prime \o reply
        ELSE IF q.inRegion THEN probe \o prime \o region \o reply
        ELSE probe \o prime \o region

\* case missingExternalBlock := <-missingExternalBlockCh of node n's responder.
MissingExternalBlockEvent(n) ==
    /\ ~crashed
    /\ Len(relayLog) < MaxRelays
    /\ \E q \in MissingInputs(n) :
          relayLog' = Append(relayLog, [kind |-> "missing", req |-> q,
                                        calls |-> subscribeMissingExternalBlockClient(q)])
    /\ UNCHANGED <<chainNum, available, location, lock, sharedVars, fetchVars, loopVars,
                   minerVars, resultVars, locatorVars, crashed, calc>>

\* subscribeNewHead and subscribeMissingExternalBlock: one goroutine per node.
NextRelay ==
    \/ \E n \in Nodes : NewHeadEvent(n)
    \/ \E n \in MissingSources : MissingExternalBlockEvent(n)

\* The propagators and the responders; they share no field with the miner.
SpecRelay == Init /\ [][NextRelay]_vars

\* ------------------------------ fetchPendingBlocks, first round, on pointers
\* A header number is a *big.Int: nil, or an object with an identity and a
\* value.  Two pointers are == exactly when they are the same object.
NilInt == [addr |-> 0, val |-> 0]
BigInt(a, v) == [addr |-> a, val |-> v]
Heights == 1..MaxHeight

\* m.combinedHeader.Number[sliceIndex]: nil until the first update, then the
\* pointer taken from the header of the block of that update (object 1).
HeaderNumbers == {NilInt} \cup {BigInt(1, v) : v \in Heights}

\* The k-th GetPendingBlock answer: nil or an error, or a block decoded from
\* the reply, whose number at sliceIndex is absent or a new object (k + 1).
NoAnswer == [nil |-> TRUE, number |-> NilInt]
Answers(k) ==
    {NoAnswer} \cup {[nil |-> FALSE, number |-> p] :
                        p \in {NilInt} \cup {BigInt(k + 1, v) : v \in Heights}}

\* receiptBlock != nil && Number[sliceIndex] == m.combinedHeader.Number[sliceIndex]
\* && err == nil: the comparison is between the two pointers.
StaleTest(r, cur) == ~r.nil /\ r.number = cur

\* The first round of fetchPendingBlocks for header number cur and answers r1,
\* r2: the number of GetPendingBlock calls made before the retry loop or the
\* delivery, which of the two follows, and the answer in hand.
fetchPendingBlocks(cur, r1, r2) ==
    LET again == StaleTest(r1, cur)
        last == IF again THEN r2 ELSE r1
    IN  [gets |-> IF again THEN 2 ELSE 1,
         out |-> IF last.nil THEN "backoff" ELSE "deliver",
         block |-> last]

\* --------------------------------------------------- the back-off delay
\* math.Floor((math.Pow(2, attempts) - 1) * 0.5) converted to int64.  The
\* float64 value is exact and below 2^63 up to attempts = 63; from 64 on it is
\* 2^(attempts-1) >= 2^63 (+Inf from 1024), which int64 cannot hold, and the
\* result of the conversion depends on the build: amd64 yields math.MinInt64,
\* arm64 yields math.MaxInt64.  The value is computed exactly up to ExactUpTo;
\* above it only its position relative to the ceiling and to zero is kept.
ExactUpTo == 30
Int64Bits == 63
Conversions == {"amd64", "arm64"}
AboveCeiling == exponentialBackoffCeilingSecs + 1
BelowZero == -1
Int64OfFloor(attempts, conv) ==
    IF attempts <= ExactUpTo THEN (2^attempts - 1) \div 2
    ELSE IF attempts - 1 < Int64Bits THEN AboveCeiling
    ELSE IF conv = "arm64" THEN AboveCeiling ELSE BelowZero

\* delaySecs of the startup loop and of the retry loop: the converted value,
\* replaced by the ceiling when it is greater.
delaySecs(attempts, conv) ==
    LET d == Int64OfFloor(attempts, conv)
    IN  IF d > exponentialBackoffCeilingSecs THEN exponentialBackoffCeilingSecs ELSE d

\* The loops that compute the delay.
Loops == {"connect", "fetch"}

\* The runs: a first round of fetchPendingBlocks, or the delay of a loop after
\* its attempts-th failure in a row.
CalcInputs ==
    {[kind |-> "fetch", cur |-> c, r1 |-> a, r2 |-> b] :
        c \in HeaderNumbers, a \in Answers(1), b \in Answers(2)}
    \cup {[kind |-> "delay", loop |-> l, attempts |-> n, conv |-> v] :
            l \in Loops, n \in 1..MaxAttempts, v \in Conversions}
    \cup {[kind |-> "locate", regions |-> rh, zones |-> zh] :
            rh \in RegionHeadInputs, zh \in ZoneHeadInputs}

InitCalc == Constructed /\ calc \in CalcInputs

FetchCase ==
    /\ calc.kind = "fetch"
    /\ calc' = [kind |-> "fetched", cur |-> calc.cur, r1 |-> calc.r1, r2 |-> calc.r2,
                res |-> fetchPendingBlocks(calc.cur, calc.r1, calc.r2)]
    /\ UNCHANGED <<chainNum, available, location, lock, sharedVars, fetchVars, loopVars,
                   minerVars, resultVars, locatorVars, crashed, relayLog>>

DelayCase ==
    /\ calc.kind = "delay"
    /\ calc' = [kind |-> "delayed", loop |-> calc.loop, attempts |-> calc.attempts,
                conv |-> calc.conv, delay |-> delaySecs(calc.attempts, calc.conv)]
    /\ UNCHANGED <<chainNum, available, location, lock, sharedVars, fetchVars, loopVars,
                   minerVars, resultVars, locatorVars, crashed, relayLog>>

LocateCase ==
    /\ calc.kind = "locate"
    /\ calc' = [kind |-> "located", regions |-> calc.regions, zones |-> calc.zones,
                found |-> findBestLocation(calc.regions, calc.zones)]
    /\ UNCHANGED <<chainNum, available, location, lock, sharedVars, fetchVars, loopVars,
                   minerVars, resultVars, locatorVars, crashed, relayLog>>

NextCalc == FetchCase \/ DelayCase \/ LocateCase

SpecCalc == InitCalc /\ [][NextCalc]_vars

\* ------------------------------------------------------- main: startup loop
\* The nodes whose dial may fail.
DialSamples == {PRIME, REGION(1), ZONE(1, 1), ZONE(R, Z)}

\* getNodeClients: a client is available when its URL is set and the dial
\* succeeded.
getNodeClients == {reg \in [Nodes -> BOOLEAN] : \A n \in Nodes \ DialSamples : reg[n]}

\* main before the loop: allClients := getNodeClients(config), attempts := 0.
InitBoot ==
    /\ ManagerFields
    /\ available \in getNodeClients
    /\ lpc = "connect"
    /\ calc = [kind |-> "connect", attempts |-> 0, delay |-> 0]

\* One iteration of for !connectStatus: connectStatus from allClients, the
\* delay, the sleep, then allClients = getNodeClients(config); the loop is
\* left when connectStatus is true.
ConnectRound ==
    /\ lpc = "connect"
    /\ calc.attempts < MaxBootRounds
    /\ LET connectStatus == \A n \in Nodes : available[n]
       IN  /\ \E conv \in Conversions :
                 calc' = [kind |-> "connect", attempts |-> calc.attempts + 1,
                          delay |-> delaySecs(calc.attempts + 1, conv)]
           /\ available' \in getNodeClients
           /\ lpc' = IF connectStatus THEN "boot" ELSE "connect"
    /\ UNCHANGED <<chainNum, location, lock, sharedVars, fetchVars, loopVars,
                   minerVars, resultVars, newLocation, relocs, crashed, relayLog>>

NextBoot == ConnectRound \/ StartMining

SpecBoot == InitBoot /\ [][NextBoot]_vars


Next ==
    \/ StartMining
    \/ \E t \in 1..Len(tasks), adv \in 0..1 : PendingHeaderEvent(t, adv)
    \/ \E t \in 1..Len(tasks) : FetchFirst(t)
    \/ \E t \in 1..Len(tasks) : FetchRetry(t)
    \/ \E i \in Tiers : LoopRecv(i)
    \/ UpdateWrite
    \/ LoopStore
    \/ MinerRecv
    \/ MinerSeal
    \/ \E c \in Tiers : Solve(c)
    \/ ResultRecv
    \/ ResultCheck
    \/ \E i \in Tiers : SendClientsMinedExtBlock(i)
    \/ ResultBarrier
    \/ \E i \in Tiers : SendMinedBlock(i)
    \/ ResultUnlock

\* The manager once the start-up fetches at location loc have gone through:
\* the three blocks are in the combined header and in pendingBlocks, the one-shot
\* fetches have returned, the engine seals the full header.  The ticker of
\* checkBestLocation has a period of minutes; its first tick finds this state.
Warm(loc) ==
    [number |-> [i \in Tiers |-> 1],
     origin |-> [i \in Tiers |-> MiningNode(i, loc)],
     time |-> 1,
     location |-> loc]

\* The warm manager with environment budget b and the locator at pc.
Steady(b, pc) ==
    /\ chainNum = [n \in Nodes |-> 1]
    /\ available = [n \in Nodes |-> TRUE]
    /\ location \in StartLocations
    /\ lock = "free"
    /\ combinedHeader = Warm(location)
    /\ pendingBlocks = [i \in Tiers |->
                          [src |-> MiningNode(i, location), num |-> 1, time |-> 1]]
    /\ pendingCh = [i \in Tiers |-> <<>>]
    /\ updatedCh = 0
    /\ resultCh = <<>>
    /\ tasks = [t \in 1..6 |->
                  IF t <= 3 THEN Task("sub", t - 1, location, 0)
                  ELSE [Task("once", t - 4, location, 0) EXCEPT !.pc = "exit"]]
    /\ budget = b
    /\ gpc = "select" /\ upd = NoUpd
    /\ mpc = "select" /\ job = Warm(location)
    /\ stopCh = 3 /\ stops = <<Closed(NewCh), Closed(NewCh), Sealing(NewCh)>>
    /\ rpc = "select" /\ bundle = NoBundle
    /\ offline = NoNode
    /\ extTask = NoTasks /\ minedTask = NoTasks
    /\ extSent = NoSends /\ minedSent = NoSends
    /\ lpc = pc
    /\ newLocation = NoLoc
    /\ relocs = 0
    /\ crashed = FALSE
    /\ relayLog = <<>>
    /\ calc = NoCalc

\* The optimizer's first tick finds the warm manager.
InitAuto ==
    Steady([events |-> MaxEvents, fails |-> MaxFails, solutions |-> MaxSolutionsAuto], "tick")

\* The mining side with the auto-locator, started by main when config.Optimize
\* is set.  Every notification announces a new pending block.
NextAuto ==
    \/ \E t \in 1..Len(tasks) : PendingHeaderEvent(t, 1)
    \/ \E t \in 1..Len(tasks) : FetchFirst(t)
    \/ \E t \in 1..Len(tasks) : FetchRetry(t)
    \/ \E i \in Tiers : LoopRecv(i)
    \/ UpdateWrite
    \/ LoopStore
    \/ MinerRecv
    \/ MinerSeal
    \/ \E c \in Tiers : Solve(c)
    \/ ResultRecv
    \/ ResultCheck
    \/ \E i \in Tiers : SendClientsMinedExtBlock(i)
    \/ ResultBarrier
    \/ \E i \in Tiers : SendMinedBlock(i)
    \/ ResultUnlock
    \/ LocatorTick
    \/ \E t \in 1..Len(tasks) : LocatorStop(t)
    \/ \E t \in 1..Len(tasks) : LocatorResume(t)

\* The manager mining at a fixed location (changeLocationCycle is false).
Spec == Init /\ [][Next]_vars

\* The same with the Go scheduler's guarantee that a goroutine that can run
\* does run, and an environment whose notifications, failures and solutions
\* come to an end.
SpecLive == Spec /\ WF_vars(Next)

\* The warm manager under a burst of MaxBurst pending-header notifications
\* that all succeed, before the engine has found anything: the subscribers,
\* the aggregator and the mining driver.
InitBurst == Steady([events |-> MaxBurst, fails |-> 0, solutions |-> 0], "boot")

NextBurst ==
    \/ \E t \in 1..Len(tasks) : PendingHeaderEvent(t, 0)
    \/ \E t \in 1..Len(tasks) : FetchFirst(t)
    \/ \E i \in Tiers : LoopRecv(i)
    \/ UpdateWrite
    \/ LoopStore
    \/ MinerRecv
    \/ MinerSeal

SpecBurst == InitBurst /\ [][NextBurst]_vars

\* The subscribers, the aggregator and the auto-locator of the warm manager,
\* with head queries that may fail.
NextLocate ==
    \/ \E t \in 1..Len(tasks) : PendingHeaderEvent(t, 1)
    \/ \E t \in 1..Len(tasks) : FetchFirst(t)
    \/ \E t \in 1..Len(tasks) : FetchRetry(t)
    \/ \E i \in Tiers : LoopRecv(i)
    \/ UpdateWrite
    \/ LoopStore
    \/ LocatorTickAny
    \/ \E t \in 1..Len(tasks) : LocatorStop(t)
    \/ \E t \in 1..Len(tasks) : LocatorResume(t)

SpecLocate == InitAuto /\ [][NextLocate]_vars

\* The manager in auto-mining mode with the optimizer on, from its first tick.
SpecAuto == InitAuto /\ [][NextAuto]_vars

\* The same with the Go scheduler's guarantee that a goroutine that can run
\* does run.
SpecAutoLive == SpecAuto /\ WF_vars(NextAuto)

\* ---------------------------------------------------------------- properties
\* The dispatcher is inside its critical section: between m.lock.Lock() and
\* m.lock.Unlock() of resultLoop.
InDispatch == rpc \in {"check", "phaseA", "phaseB"}

\* The dispatch of a context-c bundle has run both phases to their wg.Wait.
Dispatched(c) == rpc = "phaseB" /\ bundle.Context = c /\ \A i \in Tiers : minedTask[i] # "spawned"

\* The SendExternalBlock / SendMinedBlock calls of this dispatch, counted.
RECURSIVE SumOver(_, _)
SumOver(f, keys) ==
    IF keys = {} THEN 0
    ELSE LET k == CHOOSE x \in keys : TRUE IN f[k] + SumOver(f, keys \ {k})
TotalExt == SumOver(extSent, DOMAIN extSent)
TotalMined == SumOver(minedSent, DOMAIN minedSent)

\* The pending-header subscribers that have not terminated.
LiveSubs == {t \in DOMAIN tasks : tasks[t].kind = "sub" /\ tasks[t].pc # "exit"}

\* A relocation has run checkBestLocation's whole if-body.
Relocated == relocs > 0 /\ lpc = "tick"

\* C1: the dispatcher's critical section never overlaps the slot writes of
\* updateCombinedHeader.
MutualExclusion == ~(gpc = "writing" /\ InDispatch)

\* C1: an update is writing while a solution waits for the dispatcher.
UpdateWhileSolutionWaits == gpc = "writing" /\ lock = "update" /\ resultCh # <<>>

\* C2: no Phase-B SendMinedBlock goroutine exists, and no SendMinedBlock call
\* has been made, while a Phase-A goroutine of the same dispatch is unfinished.
PhaseAThenPhaseB ==
    ((\E i \in Tiers : minedTask[i] # "none") \/ minedSent # NoSends)
        => \A j \in Tiers : extTask[j] # "spawned"

\* C2: a context-0 dispatch in Phase B, its external sends made and its first
\* mined block sent.
PhaseBAfterExternalSends ==
    rpc = "phaseB" /\ bundle.Context = 0 /\ TotalExt > 0 /\ TotalMined > 0

\* C3: the step in which the online check fails for some chain starts no
\* SendClientsMinedExtBlock or SendMinedBlock goroutine, makes no send, and
\* leaves the combined header and the pending blocks as they were.
OfflineDiscards ==
    [][(rpc = "check" /\ offline' \in Nodes)
          => /\ extTask' = NoTasks /\ minedTask' = NoTasks
             /\ extSent' = NoSends /\ minedSent' = NoSends
             /\ combinedHeader' = combinedHeader
             /\ pendingBlocks' = pendingBlocks]_vars

\* C3: a solution has been discarded because a region outside the mining slice
\* was offline.
SolutionDiscarded == rpc = "select" /\ offline = REGION(2) /\ budget.solutions < MaxSolutions

\* C4: once the dispatcher has discarded a solution for an offline chain and is
\* back at its select, the mutex is free.
DiscardReleasesMutex == (rpc = "select" /\ offline \in Nodes) => lock # "result"

\* C5: after a relocation every subscriber of the old slice eventually has
\* terminated.
OldSubscribersTerminate ==
    (relocs > 0) ~> (\A t \in DOMAIN tasks :
                        (tasks[t].kind = "sub" /\ tasks[t].gen < relocs)
                            => tasks[t].pc = "exit")

\* C6: after a relocation has completed exactly three subscribers are live, and
\* an update of slot 1 or 2 carries a block of the new slice's chain.
ThreeLiveSubscribers ==
    Relocated =>
        /\ Cardinality(LiveSubs) = 3
        /\ (gpc = "writing" /\ upd.tier # 0)
              => upd.blk.src = MiningNode(upd.tier, location)

\* C7: while the dispatcher holds the mutex every stored pending block is the
\* block whose fields are in its tier's slot of the combined header.
PendingMatchesHeader ==
    InDispatch =>
        \A i \in Tiers :
            pendingBlocks[i] # NoBlock
                => /\ pendingBlocks[i].num = combinedHeader.number[i]
                   /\ pendingBlocks[i].src = combinedHeader.origin[i]

\* C8: the update of tier i with block b sets slot i to b's fields, leaves the
\* header time at or above b's time, and leaves the other tiers' slots alone.
UpdateEffect ==
    [][(gpc = "writing" /\ gpc' = "store")
          => /\ combinedHeader'.number[upd.tier] = upd.blk.num
             /\ combinedHeader'.origin[upd.tier] = upd.blk.src
             /\ combinedHeader'.time >= upd.blk.time
             /\ \A j \in Tiers \ {upd.tier} :
                   /\ combinedHeader'.number[j] = combinedHeader.number[j]
                   /\ combinedHeader'.origin[j] = combinedHeader.origin[j]]_vars

\* C8: an update with a block older than the header has been applied, next to
\* a filled slot of another tier.
OlderBlockApplied ==
    /\ gpc = "store"
    /\ combinedHeader.number[upd.tier] = upd.blk.num
    /\ combinedHeader.time > upd.blk.time
    /\ \E j \in Tiers \ {upd.tier} : combinedHeader.number[j] # 0

\* C9: when the dispatch of a context-2 solution is through, SendExternalBlock
\* of the zone block has been called once on every node but the mining zone,
\* and SendMinedBlock once, on the mining zone.
ZoneSolutionFanOut ==
    Dispatched(2) =>
        /\ \A n \in Nodes :
              extSent[<<2, n>>] = IF n = MiningNode(2, location) THEN 0 ELSE 1
        /\ \A n \in Nodes :
              minedSent[<<2, n>>] = IF n = MiningNode(2, location) THEN 1 ELSE 0
        /\ TotalExt = 12 /\ TotalMined = 1

Calls(calls, op, n, c) ==
    Cardinality({i \in DOMAIN calls :
                    calls[i].op = op /\ n \in calls[i].to /\ calls[i].ctx = c})

\* The SendExternalBlock calls in calls whose context annotation is not c.
OtherContext(calls, c) ==
    {i \in DOMAIN calls : calls[i].op = "SendExternalBlock" /\ calls[i].to # {}
                          /\ calls[i].ctx # c}

\* A handled new head of tier c whose block and receipts were retrieved and
\* whose header carries a location.
HeadRetrieved(e, c) ==
    /\ e.kind = "head" /\ TierOf(e.req.src) = c
    /\ e.req.blockOk /\ e.req.receiptsOk /\ e.req.loc # NoLoc

\* C11: a PRIME head whose block, receipts and both external blocks are
\* retrieved makes one SendMinedBlock to the region and one to the zone of the
\* external blocks' location, one SendExternalBlock of context 0 to every
\* region and zone, and none to PRIME.
PrimeHeadFanOut ==
    \A k \in DOMAIN relayLog :
        LET e == relayLog[k] IN
        (HeadRetrieved(e, 0) /\ e.req.regionExt /\ e.req.zoneExt) =>
            /\ \A n \in Nodes :
                  Calls(e.calls, "SendMinedBlock", n, -1) =
                      IF n \in {REGION(e.req.loc[1]), ZONE(e.req.loc[1], e.req.loc[2])}
                      THEN 1 ELSE 0
            /\ \A n \in Nodes :
                  Calls(e.calls, "SendExternalBlock", n, 0) = IF n = PRIME THEN 0 ELSE 1
            /\ OtherContext(e.calls, 0) = {}

\* C11: a PRIME head mined at (2,3) has been propagated in full.
PrimeHeadPropagated ==
    \E k \in DOMAIN relayLog :
        /\ HeadRetrieved(relayLog[k], 0)
        /\ relayLog[k].req.regionExt /\ relayLog[k].req.zoneExt
        /\ relayLog[k].req.loc = <<2, 3>>
        /\ Calls(relayLog[k].calls, "SendMinedBlock", ZONE(2, 3), -1) = 1

\* C12: a head of REGION r mined at (r,z) whose block, receipts and zone
\* external block are retrieved makes one SendMinedBlock, to ZONE (r,z), one
\* SendExternalBlock of context 1 to every node but REGION r, and none to
\* REGION r.
RegionHeadFanOut ==
    \A k \in DOMAIN relayLog :
        LET e == relayLog[k] IN
        (HeadRetrieved(e, 1) /\ e.req.zoneExt) =>
            /\ \A n \in Nodes :
                  Calls(e.calls, "SendMinedBlock", n, -1) =
                      IF n = ZONE(e.req.loc[1], e.req.loc[2]) THEN 1 ELSE 0
            /\ \A n \in Nodes :
                  Calls(e.calls, "SendExternalBlock", n, 1) =
                      IF n = REGION(e.req.loc[1]) THEN 0 ELSE 1
            /\ OtherContext(e.calls, 1) = {}

\* C12: a head of REGION 2 mined at (2,3) has been propagated in full.
RegionHeadPropagated ==
    \E k \in DOMAIN relayLog :
        /\ HeadRetrieved(relayLog[k], 1) /\ relayLog[k].req.zoneExt
        /\ relayLog[k].req.src = REGION(2) /\ relayLog[k].req.loc = <<2, 3>>
        /\ Calls(relayLog[k].calls, "SendExternalBlock", PRIME, 1) = 1

\* The lookups among calls, in order: the node asked by each.
RECURSIVE Probes(_)
Probes(calls) ==
    IF calls = <<>> THEN <<>>
    ELSE (IF Head(calls).op \in {"BlockByHash", "GetExternalBlockByHashAndContext"}
          THEN <<[op |-> Head(calls).op, to |-> Head(calls).to]>> ELSE <<>>)
         \o Probes(Tail(calls))

\* C13: the responder asks the owner of (context, location) first, PRIME only
\* after the owner missed, the region of location[0] only after PRIME missed,
\* and nobody after the first hit.
ProbeOrder ==
    \A k \in DOMAIN relayLog :
        LET e == relayLog[k]
            q == e.req
            owner == [op |-> "BlockByHash", to |-> {Owner(q.ctx, q.loc)}]
            prime == [op |-> "GetExternalBlockByHashAndContext", to |-> {PRIME}]
            region == [op |-> "GetExternalBlockByHashAndContext",
                       to |-> {REGION(q.loc[1])}]
        IN  e.kind = "missing" =>
                Probes(e.calls) = IF q.local THEN <<owner>>
                                  ELSE IF q.inPrime THEN <<owner, prime>>
                                  ELSE <<owner, prime, region>>

\* C13: a request of context 2 that only the region could resolve.
ResolvedByRegion ==
    \E k \in DOMAIN relayLog :
        /\ relayLog[k].kind = "missing"
        /\ relayLog[k].req.ctx = 2
        /\ ~relayLog[k].req.local /\ ~relayLog[k].req.inPrime /\ relayLog[k].req.inRegion
        /\ Len(Probes(relayLog[k].calls)) = 3

\* A request that one of the three lookups resolves: the owner has the block
\* and its receipts, or PRIME, or the region has the external block.
Resolves(q) == (q.local /\ q.receiptsOk) \/ (~q.local /\ (q.inPrime \/ q.inRegion))

\* The replies among calls.
Replies(calls) == {i \in DOMAIN calls : calls[i].op = "SendExternalBlock"}

SameNumber(p, q) == p.val = q.val

\* C15: a first answer whose number at the tier is the height the combined
\* header holds makes the fetch call GetPendingBlock a second time, once,
\* before it delivers or enters the retry loop.
StaleRefetchedOnce ==
    (/\ calc.kind = "fetched"
     /\ ~calc.r1.nil /\ calc.r1.number # NilInt /\ calc.cur # NilInt
     /\ SameNumber(calc.r1.number, calc.cur))
        => calc.res.gets = 2

\* C16: after the second call, a second answer with a new number is delivered,
\* and one that is nil or has the header's number again enters the retry loop
\* and is not delivered.
RefetchOutcome ==
    (calc.kind = "fetched" /\ calc.res.gets = 2) =>
        IF calc.r2.nil \/ SameNumber(calc.r2.number, calc.cur)
        THEN calc.res.out = "backoff"
        ELSE calc.res.out = "deliver" /\ calc.res.block = calc.r2

\* C17: the delay after the n-th failure in a row is floor((2^n - 1) / 2)
\* clamped to 14400: 0 for n = 1, 8191 for n = 14, 14400 from n = 16 on, never
\* above 14400 and never below the delay of n - 1, in both loops.
BackoffDelay ==
    calc.kind = "delayed" =>
        LET n == calc.attempts
            d == calc.delay
        IN  /\ n = 1 => d = 0
            /\ n = 14 => d = 8191
            /\ n >= 16 => d = exponentialBackoffCeilingSecs
            /\ n <= ExactUpTo =>
                  d = IF (2^n - 1) \div 2 > exponentialBackoffCeilingSecs
                      THEN exponentialBackoffCeilingSecs ELSE (2^n - 1) \div 2
            /\ d <= exponentialBackoffCeilingSecs
            /\ n > 1 => d >= delaySecs(n - 1, calc.conv)

\* The update in hand has just written the slot that was the last null one:
\* the header is complete and no block of the update's tier was stored before.
LastSlotFilled ==
    /\ gpc = "store"
    /\ \A i \in Tiers : combinedHeader.number[i] # 0
    /\ pendingBlocks[upd.tier] = NoBlock

\* C18: the header handed to SealHeader has no null number, and after the
\* update that fills the last null slot the driver calls SealHeader, whether
\* or not another pending block arrives.
SealsCompleteHeader ==
    /\ [](job # NoJob => \A i \in Tiers : job.number[i] # 0)
    /\ [](\A k \in DOMAIN stops :
             stops[k].seals > 0 => \A i \in Tiers : combinedHeader.number[i] # 0)
    /\ (LastSlotFilled ~> \E k \in DOMAIN stops : stops[k].seals > 0)

\* C18: the first sealing job runs, tokens of the incomplete header were
\* received before it, and no notification was needed after the start-up
\* fetches.
SealedAfterWaiting ==
    /\ Len(stops) = 3
    /\ stops[1].seals = 0 /\ stops[2].seals = 0 /\ stops[3].seals = 1
    /\ job # NoJob
    /\ budget.events = MaxEvents

\* C19: a stop channel is closed at most once and given to at most one
\* SealHeader call; when a channel is given to SealHeader every channel made
\* before it is closed, so at most one sealing job has an open stop channel.
StopChannelDiscipline ==
    /\ \A k \in DOMAIN stops : stops[k].closed <= 1 /\ stops[k].seals <= 1
    /\ \A k \in DOMAIN stops :
          stops[k].seals > 0 => \A j \in 1..(k - 1) : stops[j].closed = 1
    /\ Cardinality({k \in DOMAIN stops : stops[k].seals > 0 /\ stops[k].closed = 0}) <= 1
    /\ stopCh = Len(stops)

\* C19: a second sealing job runs on a new channel after the channel of the
\* first was closed.
SecondJobAfterClose ==
    \E j, k \in DOMAIN stops :
        /\ j < k
        /\ stops[j].seals = 1 /\ stops[j].closed = 1
        /\ stops[k].seals = 1 /\ stops[k].closed = 0
        /\ job # NoJob

\* C20: the aggregator's publication is never held up: after the update it
\* can always store and publish, and with updatedCh full the header is
\* dropped, the buffer stays as it is and the aggregator is back at its select.
PublishNeverBlocks ==
    /\ []((gpc = "store" /\ ~crashed) => ENABLED LoopStore)
    /\ [][(gpc = "store" /\ gpc' # "store") =>
             /\ gpc' = "select"
             /\ pendingBlocks'[upd.tier] = upd.blk
             /\ updatedCh' = IF updatedCh = resultQueueSize
                             THEN resultQueueSize ELSE updatedCh + 1]_vars

\* C20: every notification of the burst has been fetched, applied and
\* published while the driver received nothing: updatedCh is full and holds
\* fewer headers than were published.
PublicationDropped ==
    /\ updatedCh = resultQueueSize
    /\ MaxBurst > resultQueueSize
    /\ budget.events = 0
    /\ gpc = "select"
    /\ \A i \in Tiers : pendingCh[i] = <<>>
    /\ \A t \in DOMAIN tasks : tasks[t].pc # "want"
    /\ Len(stops) = 3

\* C21: once an update has written the combined header, its location is the
\* manager's location, also between a relocation and the next update.
HeaderLocationCurrent ==
    combinedHeader.location # NoLoc => combinedHeader.location = location

\* C22: m.location does not change while the dispatcher holds the mutex for a
\* solution or while an update is writing the combined header.
LocationChangesUnderMutex ==
    [][(lock \in {"result", "update"}) => (location' = location)]_vars

\* C24: with mining disabled the propagators and the responders run and the
\* combined header and the pending blocks stay as they were constructed.
ListeningWritesNothing ==
    /\ combinedHeader = [number |-> [i \in Tiers |-> 0],
                         origin |-> [i \in Tiers |-> NoNode],
                         time |-> 0,
                         location |-> NoLoc]
    /\ pendingBlocks = [i \in Tiers |-> NoBlock]
    /\ tasks = <<>>

\* C24: a new head was propagated and a missing block was answered.
RelayedWhileListening ==
    /\ Len(relayLog) = 2
    /\ relayLog[1].kind = "head" /\ HeadRetrieved(relayLog[1], 2)
    /\ Calls(relayLog[1].calls, "SendExternalBlock", PRIME, 2) = 1
    /\ relayLog[2].kind = "missing" /\ Cardinality(Replies(relayLog[2].calls)) = 1

\* C25: a new head of tier c whose block and receipts were fetched and whose
\* header has a location is sent as an external block of context c to every
\* node of the other tiers, whatever the external-block lookups returned.
HeadAlwaysBroadcast ==
    \A k \in DOMAIN relayLog :
        \A c \in Tiers :
            HeadRetrieved(relayLog[k], c) =>
                \A n \in Nodes :
                    TierOf(n) # c =>
                        Calls(relayLog[k].calls, "SendExternalBlock", n, c) >= 1

\* The step in which SendMinedBlock(t) of the dispatch makes its call.
MinedSend(t) == minedTask[t] = "spawned" /\ minedTask'[t] = "done"

\* C28: the body sealed for tier t with solution header h is a pending block
\* of the height h has at t.
SealedBodyMatchesHeader ==
    [][\A t \in Tiers :
          MinedSend(t) => (pendingBlocks[t].num = bundle.Header.number[t])]_vars

\* C29: the mined block of a dispatch goes to the slice the sealed header
\* names, which is the slice Phase A took its mining-slice nodes from.
PhasesSameSlice ==
    [][\A t \in Tiers : MinedSend(t) => (bundle.Header.location = location)]_vars

\* C30: a fetch that waits in its retry loop does not hold the mutex.
BackoffWithoutMutex ==
    (\E t \in DOMAIN tasks : tasks[t].pc = "backoff") => lock # "fetch"

\* Index k is the first among the lowest difficulties of the heads that
\* answered.
FirstLowest(heads, k) ==
    /\ k \in 1..Len(heads)
    /\ heads[k] # Err
    /\ \A j \in 1..Len(heads) :
          heads[j] # Err => heads[k] <= heads[j] /\ (heads[j] = heads[k] => k <= j)

\* C26: when a region head and a zone head of the chosen region answered,
\* findBestLocation returns the region of least difficulty[1] and, within it,
\* the zone of least difficulty[2], the lowest index on equal difficulties.
BestLocationIsLowest ==
    (/\ calc.kind = "located"
     /\ \E r \in 1..R : calc.regions[r] # Err)
        => /\ FirstLowest(calc.regions, calc.found[1])
           /\ (\E z \in 1..Z : calc.zones[calc.found[1]][z] # Err)
                 => FirstLowest(calc.zones[calc.found[1]], calc.found[2])

\* C26: region 1 failed, regions 2 and 3 tie, and in region 2 the first zone
\* failed: (2,3) is returned.
TieAndFailureResolved ==
    /\ calc.kind = "located"
    /\ calc.regions = <<Err, 1, 1>>
    /\ calc.zones[2] = <<Err, 2, 1>>
    /\ calc.found = <<2, 3>>

\* C27: m.location is always a slice of the tables: 1 <= r <= R, 1 <= z <= Z.
LocationInRange ==
    /\ location[1] \in 1..R
    /\ location[2] \in 1..Z

\* C23: when the startup loop has exited, PRIME, every REGION and every ZONE
\* is available in the registry of the manager.
BuiltOnFullRegistry ==
    lpc \in {"boot", "tick"} => \A n \in Nodes : available[n]
=============================================================================
